---- MODULE Spec2Model ----
(***************************************************************************)
(* Model of src/silent_sense.py: the validation of main, then the monitor  *)
(* loop of monitor_stream, one action per way a loop iteration can go (a   *)
(* parsed reading, unparseable output, and the three exception handlers),  *)
(* and the interruption of the loop.  Time is counted in whole ticks; mean *)
(* volumes are whole decibels around the silence threshold.                *)
(***************************************************************************)
EXTENDS Integers, Sequences, FiniteSets, TLC

\* ---- bounds of the model ------------------------------------------------
MaxTime == 9         \* the clock stops the model at this tick
MaxElapsed == 2      \* longest duration of one loop iteration, in ticks
MaxSkew == 1         \* longest gap between the two clock reads of a reading
MaxTimeout == 3      \* largest configured silence timeout, in ticks

\* ---- program constants --------------------------------------------------
max_consecutive_errors == 5

\* the exit codes of ffmpeg: success, and an error
ReturnCodes == {0, 1}

\* the exit code of a run of ffmpeg that did not complete
NoReturn == 0 - 1

\* exit_status while the process is running
NotExited == 0 - 1

\* --threshold: the default, and a positive value
Thresholds == {0 - 60, 1}

\* --check-interval: zero, and the default
CheckIntervals == {0, 1}

\* --stream-url: missing, without a scheme, with another scheme, without a
\* host, one that urlparse rejects, and a well-formed one
StreamUrls == {"", "radio.example.com/stream.mp3", "ftp://radio.example.com/stream.mp3",
               "http:///stream.mp3", "http://[radio/stream.mp3",
               "http://radio.example.com/stream.mp3"}

\* --uptime-kuma-url: none, one without a scheme, and a well-formed one
PushUrls == {"", "kuma/push", "https://kuma/push"}

VARIABLES
  pc,                      \* "main", "monitor" (inside the loop) or "exit"
  exit_status,             \* the exit status of the process, once it has exited
  stream_url,              \* configuration: --stream-url
  silence_threshold_db,    \* configuration: --threshold
  check_interval_seconds,  \* configuration: --check-interval
  silence_timeout_seconds, \* configuration: --timeout
  uptime_kuma_url,         \* configuration: --uptime-kuma-url
  silence_start_time,      \* None or the clock value at the start of silence
  is_silent,               \* a "down" was sent and not yet recovered
  consecutive_errors,      \* failures since the last parsed reading
  now,                     \* the last value read from the clock
  \* ---- observations of the last iteration and of the run (history) ------
  outcome,                 \* what the probe of the last iteration produced
  sent,                    \* the notifier call of the last iteration
  delivery,                \* what the HTTP request of that call did
  downsSinceAudio,         \* "down" calls since the last audio-present reading
  recent,                  \* the last max_consecutive_errors outcome kinds
  spanOpen,                \* a below-threshold reading since the last audio reading
  spanStart,               \* the clock at the first such reading
  onlyAudio,               \* every outcome so far was an audio-present reading
  ups,                     \* "up" calls so far
  lastCall,                \* the status of the latest notifier call of the run
  ideal                    \* the locals and the call had every delivery succeeded

vars == <<pc, exit_status, stream_url, silence_threshold_db, check_interval_seconds,
          silence_timeout_seconds, uptime_kuma_url, silence_start_time, is_silent,
          consecutive_errors, now, outcome, sent, delivery, downsSinceAudio,
          recent, spanOpen, spanStart, onlyAudio, ups, lastCall, ideal>>

config == <<stream_url, silence_threshold_db, check_interval_seconds,
            silence_timeout_seconds, uptime_kuma_url>>

\* the history variables
history == <<outcome, sent, delivery, downsSinceAudio, recent, spanOpen, spanStart,
             onlyAudio, ups, lastCall, ideal>>

\* mean volumes the probe can report: below, at and above the threshold
Volumes == {silence_threshold_db - 1, silence_threshold_db, silence_threshold_db + 1}

\* ---- values -------------------------------------------------------------
None == [some |-> FALSE, t |-> 0]
Some(t) == [some |-> TRUE, t |-> t]

NoSend == [status |-> "none", msg |-> ""]
Down(m) == [status |-> "down", msg |-> m]
Up == [status |-> "up", msg |-> "Audio stream recovered"]

FailureKinds == {"unparseable", "timeout", "subprocess_error", "unexpected"}

\* ---- validation of main -------------------------------------------------
\* line 32: urlparse on the URLs of the model; raises stands for the
\* ValueError of a malformed host
urlparse(url) ==
  CASE url = "" -> [scheme |-> "", netloc |-> "", raises |-> FALSE]
    [] url = "radio.example.com/stream.mp3" -> [scheme |-> "", netloc |-> "", raises |-> FALSE]
    [] url = "kuma/push" -> [scheme |-> "", netloc |-> "", raises |-> FALSE]
    [] url = "ftp://radio.example.com/stream.mp3" ->
         [scheme |-> "ftp", netloc |-> "radio.example.com", raises |-> FALSE]
    [] url = "http:///stream.mp3" -> [scheme |-> "http", netloc |-> "", raises |-> FALSE]
    [] url = "http://[radio/stream.mp3" -> [scheme |-> "", netloc |-> "", raises |-> TRUE]
    [] url = "http://radio.example.com/stream.mp3" ->
         [scheme |-> "http", netloc |-> "radio.example.com", raises |-> FALSE]
    [] url = "https://kuma/push" -> [scheme |-> "https", netloc |-> "kuma", raises |-> FALSE]

\* any scheme accepted
validate_url_any_scheme(url) ==
  LET result == urlparse(url)
  IN IF result.raises THEN FALSE ELSE result.netloc # ""

\* lines 29-35
validate_url(url) ==
  LET result == urlparse(url)
  IN IF result.raises THEN FALSE
     ELSE result.scheme \in {"http", "https"} /\ result.netloc # ""

\* zero accepted
NotPositive_strict(seconds) == seconds < 0

\* lines 291, 295: args.timeout <= 0, args.check_interval <= 0
NotPositive(seconds) == seconds <= 0

\* lines 276-297: the exit status of the validation, NotExited when it passes
Validation(url, push_url, timeout, interval) ==
  IF url = "" THEN 1
  ELSE IF ~validate_url(url) THEN 1
  ELSE IF push_url # "" /\ ~validate_url(push_url) THEN 1
  ELSE IF NotPositive(timeout) THEN 1
  ELSE IF NotPositive(interval) THEN 1
  ELSE NotExited

\* the handlers without the catch-all
Caught_no_catch_all(kind) == kind # "unexpected"

\* lines 95, 182, 194, 206: no exception, or one that a handler of the loop
\* catches
Caught(kind) ==
  \/ kind \in {"reading", "unparseable"}
  \/ kind = "timeout"
  \/ kind = "subprocess_error"
  \/ kind = "unexpected"

\* ---- conditions and helpers of monitor_stream ---------------------------
\* a reading equal to the threshold taken for silence
SilenceDetected_le(mean_volume) == mean_volume <= silence_threshold_db

\* line 127: if mean_volume < silence_threshold_db
SilenceDetected(mean_volume) == mean_volume < silence_threshold_db

\* the start time restarted at every below-threshold reading
StartOfSilence_restart(start, t) == Some(t)

\* the start time never set
StartOfSilence_never(start, t) == start

\* lines 129-130: the start time is set only when it is unset
StartOfSilence(start, t) == IF start.some THEN start ELSE Some(t)

\* the timeout compared strictly
TimeoutExceeded_strict(silence_duration, silent) ==
  silence_duration > silence_timeout_seconds /\ ~silent

\* line 135: if silence_duration >= silence_timeout_seconds and not is_silent
TimeoutExceeded(silence_duration, silent) ==
  silence_duration >= silence_timeout_seconds /\ ~silent

\* the recovery never reported
WasSilent_never(silent) == FALSE

\* the recovery reported at every audio-present reading
WasSilent_always(silent) == TRUE

\* line 155: if is_silent (recovery notification)
WasSilent(silent) == silent

\* the counter kept across a reading
ResetErrors_keep(errors) == errors

\* line 125: consecutive_errors = 0
ResetErrors(errors) == 0

\* the escalation one failure early
TooManyErrors_early(errors) == errors >= max_consecutive_errors - 1

\* lines 172, 186, 198: consecutive_errors >= max_consecutive_errors
TooManyErrors(errors) == errors >= max_consecutive_errors

\* the escalation repeated at every further failure
EscalateDown_repeat(errors, silent) == TooManyErrors(errors)

\* the escalation never reported
EscalateDown_never(errors, silent) == FALSE

\* lines 172-174, 186, 198: the escalation sends "down" unless already silent
EscalateDown(errors, silent) == TooManyErrors(errors) /\ ~silent

\* lines 50-65: the result of send_uptime_kuma_notification; ok is whether
\* the GET succeeded (no RequestException)
send_uptime_kuma_notification(push_url, ok) == IF push_url = "" THEN TRUE ELSE ok

\* lines 50-65: what happened to the HTTP request of a notifier call
Request(push_url, call, ok) ==
  IF call.status = "none" THEN "none"
  ELSE IF push_url = "" THEN "skipped"
  ELSE IF send_uptime_kuma_notification(push_url, ok) THEN "ok" ELSE "failed"

\* the window of the last max_consecutive_errors outcome kinds
Remember(window, kind) ==
  LET w == Append(window, kind)
  IN IF Len(w) > max_consecutive_errors THEN Tail(w) ELSE w

\* the history of one iteration: probe result, notifier call, clock
Observe(kind, mean_volume, returncode, call, ok, t1, t2) ==
  LET audio == kind = "reading" /\ mean_volume >= silence_threshold_db
      below == kind = "reading" /\ mean_volume < silence_threshold_db
  IN /\ now' = t2
     /\ pc' = IF Caught(kind) THEN "monitor" ELSE "exit"
     /\ exit_status' = IF Caught(kind) THEN exit_status ELSE 1
     /\ outcome' = [kind |-> kind, mean_volume |-> mean_volume, returncode |-> returncode]
     /\ sent' = call
     /\ delivery' = Request(uptime_kuma_url, call, ok)
     /\ downsSinceAudio' = IF audio THEN 0
                           ELSE IF call.status = "down" THEN downsSinceAudio + 1
                           ELSE downsSinceAudio
     /\ recent' = Remember(recent, IF audio THEN "audio" ELSE IF below THEN "below"
                                    ELSE "failure")
     /\ spanOpen' = IF audio THEN FALSE ELSE IF below THEN TRUE ELSE spanOpen
     /\ spanStart' = IF audio THEN 0
                     ELSE IF below /\ ~spanOpen THEN t1
                     ELSE spanStart
     /\ onlyAudio' = (onlyAudio /\ audio)
     /\ ups' = IF call.status = "up" THEN ups + 1 ELSE ups
     /\ lastCall' = IF call.status = "none" THEN lastCall ELSE call.status

\* the flag set only when the "down" was delivered
AlertRecorded_if_delivered(alert, delivered) == alert /\ delivered

\* lines 136, 141-145 and 175-180, 187-192, 199-204: is_silent = True comes
\* before the call of the notifier, whose result is dropped
AlertRecorded(alert, delivered) == alert

\* lines 122-165: the locals and the notifier call after a parsed reading;
\* t1 and t2 are the clock at lines 130 and 133, delivered the result of the
\* notifier
Reading(start, silent, errors, mean_volume, t1, t2, delivered) ==
  IF SilenceDetected(mean_volume)
  THEN LET started == StartOfSilence(start, t1)
           silence_duration == t2 - started.t
           alert == TimeoutExceeded(silence_duration, silent)
       IN [start |-> started,
           silent |-> (silent \/ AlertRecorded(alert, delivered)),
           errors |-> ResetErrors(errors),
           call |-> IF alert THEN Down("Silence detected") ELSE NoSend]
  ELSE [start |-> None,
        silent |-> FALSE,
        errors |-> ResetErrors(errors),
        call |-> IF WasSilent(silent) THEN Up ELSE NoSend]

\* lines 167-180, 182-192, 194-204: the locals and the notifier call of a
\* handler that escalates
Escalation(start, silent, errors, msg, delivered) ==
  LET counted == errors + 1
      alert == EscalateDown(counted, silent)
  IN [start |-> start,
      silent |-> (silent \/ AlertRecorded(alert, delivered)),
      errors |-> counted,
      call |-> IF alert THEN Down(msg) ELSE NoSend]

\* lines 206-208: the locals after the catch-all handler
Unexpected(start, silent, errors) ==
  [start |-> start, silent |-> silent, errors |-> errors + 1, call |-> NoSend]

\* the locals of monitor_stream take the result of an iteration
Assign(result) ==
  /\ silence_start_time' = result.start
  /\ is_silent' = result.silent
  /\ consecutive_errors' = result.errors

\* ---- initial state: the start of main with the parsed arguments; the ----
\* ---- locals of monitor_stream hold what lines 89-92 give them -----------
Init ==
  /\ pc = "main"
  /\ exit_status = NotExited
  /\ stream_url \in StreamUrls
  /\ silence_threshold_db \in Thresholds
  /\ check_interval_seconds \in CheckIntervals
  /\ silence_timeout_seconds \in 0..MaxTimeout
  /\ uptime_kuma_url \in PushUrls
  /\ silence_start_time = None
  /\ is_silent = FALSE
  /\ consecutive_errors = 0
  /\ now = 0
  /\ outcome = [kind |-> "none", mean_volume |-> 0, returncode |-> NoReturn]
  /\ sent = NoSend
  /\ delivery = "none"
  /\ downsSinceAudio = 0
  /\ recent = <<>>
  /\ spanOpen = FALSE
  /\ spanStart = 0
  /\ onlyAudio = TRUE
  /\ ups = 0
  /\ lastCall = "none"
  /\ ideal = [start |-> None, silent |-> FALSE, errors |-> 0, call |-> NoSend]

\* ---- lines 275-307 and 85-92: the validation, then the entry of the loop -
Main ==
  LET status == Validation(stream_url, uptime_kuma_url, silence_timeout_seconds,
                           check_interval_seconds)
  IN /\ pc = "main"
     /\ exit_status' = status
     /\ pc' = IF status = NotExited THEN "monitor" ELSE "exit"
     /\ silence_start_time' = None
     /\ is_silent' = FALSE
     /\ consecutive_errors' = 0
     /\ UNCHANGED <<config, now, history>>

\* ---- lines 308-310: KeyboardInterrupt inside the loop -------------------
Interrupt ==
  /\ pc = "monitor"
  /\ pc' = "exit"
  /\ exit_status' = 0
  /\ UNCHANGED <<config, now, history, silence_start_time, is_silent, consecutive_errors>>

\* ---- lines 107-165: ffmpeg ran, with any exit code, and mean_volume was -
\* ---- parsed from its output ---------------------------------------------
ProbeReading ==
  \E mean_volume \in Volumes, returncode \in ReturnCodes,
     dt \in 1..MaxElapsed, skew \in 0..MaxSkew, ok \in BOOLEAN :
    LET t1 == now + dt
        t2 == t1 + skew
        result == Reading(silence_start_time, is_silent, consecutive_errors, mean_volume,
                          t1, t2, send_uptime_kuma_notification(uptime_kuma_url, ok))
    IN /\ pc = "monitor"
       /\ t2 <= MaxTime
       /\ Assign(result)
       /\ ideal' = Reading(ideal.start, ideal.silent, ideal.errors, mean_volume,
                           t1, t2, TRUE)
       /\ Observe("reading", mean_volume, returncode, result.call, ok, t1, t2)
       /\ UNCHANGED config

\* the body shared by the handlers that escalate: count, then "down" once
Escalating(kind, msg, returncodes) ==
  \E returncode \in returncodes, dt \in 1..MaxElapsed, ok \in BOOLEAN :
    LET t == now + dt
        result == Escalation(silence_start_time, is_silent, consecutive_errors, msg,
                             send_uptime_kuma_notification(uptime_kuma_url, ok))
    IN /\ pc = "monitor"
       /\ t <= MaxTime
       /\ Assign(result)
       /\ ideal' = Escalation(ideal.start, ideal.silent, ideal.errors, msg, TRUE)
       /\ Observe(kind, 0, returncode, result.call, ok, t, t)
       /\ UNCHANGED config

\* ---- lines 167-180: no mean_volume in the output of ffmpeg --------------
ProbeUnparseable == Escalating("unparseable", "Stream connection issues", ReturnCodes)

\* ---- lines 182-192: subprocess.TimeoutExpired ---------------------------
ProbeTimeout == Escalating("timeout", "Stream connection timeout", {NoReturn})

\* ---- lines 194-204: subprocess.SubprocessError --------------------------
ProbeSubprocessError ==
  Escalating("subprocess_error", "Stream processing error", {NoReturn})

\* ---- lines 206-208: any other exception (ffmpeg missing, float() of a ---
\* ---- malformed number): counted, never escalated ------------------------
ProbeUnexpectedError ==
  \E dt \in 1..MaxElapsed :
    LET t == now + dt
    IN /\ pc = "monitor"
       /\ t <= MaxTime
       /\ Assign(Unexpected(silence_start_time, is_silent, consecutive_errors))
       /\ ideal' = Unexpected(ideal.start, ideal.silent, ideal.errors)
       /\ Observe("unexpected", 0, NoReturn, NoSend, TRUE, t, t)
       /\ UNCHANGED config

Next ==
  \/ Main
  \/ Interrupt
  \/ ProbeReading
  \/ ProbeUnparseable
  \/ ProbeTimeout
  \/ ProbeSubprocessError
  \/ ProbeUnexpectedError

Spec == Init /\ [][Next]_vars

\* ---- derived ------------------------------------------------------------
\* the verdict of the spec: Silent while a silence span is open or a "down"
\* is outstanding
Verdict == IF silence_start_time.some \/ is_silent THEN "Silent" ELSE "Playing"

TypeOK ==
  /\ pc \in {"main", "monitor", "exit"}
  /\ exit_status \in {NotExited, 0, 1}
  /\ stream_url \in StreamUrls
  /\ silence_threshold_db \in Thresholds
  /\ check_interval_seconds \in CheckIntervals
  /\ silence_timeout_seconds \in 0..MaxTimeout
  /\ uptime_kuma_url \in PushUrls
  /\ silence_start_time.some \in BOOLEAN
  /\ is_silent \in BOOLEAN
  /\ consecutive_errors \in 0..MaxTime
  /\ now \in 0..MaxTime
  /\ sent.status \in {"none", "down", "up"}
  /\ delivery \in {"none", "skipped", "ok", "failed"}

\* ---- the probe outcome of the last iteration ----------------------------
Below == outcome.kind = "reading" /\ outcome.mean_volume < silence_threshold_db
Audio == outcome.kind = "reading" /\ outcome.mean_volume >= silence_threshold_db
Failed == outcome.kind \in FailureKinds
SilenceDown == sent.status = "down" /\ sent.msg = "Silence detected"
EscalationDown == sent.status = "down" /\ sent.msg # "Silence detected"

\* a step that is an iteration of the loop: only those advance the clock
Probed == now' # now

\* C1: at most one "down" is sent between two audio-present readings (and
\* before the first), whichever of the silence-timeout and the
\* failure-escalation paths sends it.
C1_OneDownPerEpisode == downsSinceAudio <= 1

\* a "down" of the silence path, then failures past the escalation threshold
\* in the same episode, without a second "down"
C1_Witness ==
  /\ downsSinceAudio = 1
  /\ spanOpen
  /\ Failed
  /\ consecutive_errors > max_consecutive_errors
  /\ sent = NoSend
  /\ silence_start_time.some
  /\ spanStart + silence_timeout_seconds < now - max_consecutive_errors

\* C2: while a span of below-threshold readings is open, silence_start_time
\* is the clock of its first reading, failed probes leave it alone, and with
\* no "down" outstanding a below-threshold reading sends the "down" exactly
\* when the clock has reached that start plus the timeout.
C2_Step ==
  Probed =>
    /\ spanOpen' => silence_start_time' = Some(spanStart')
    /\ (Failed' /\ spanOpen) => silence_start_time' = silence_start_time
    /\ (Below' /\ ~is_silent) =>
          /\ (now' - spanStart' >= silence_timeout_seconds) => (SilenceDown' /\ is_silent')
          /\ (now' - spanStart' < silence_timeout_seconds) => (sent' = NoSend /\ ~is_silent')

C2_AlertAtTimeout == [][C2_Step]_vars

\* the "down" of the silence path at a reading that follows failed probes
\* inside the span, which started at the first iteration
C2_Witness ==
  /\ SilenceDown
  /\ spanStart = 1
  /\ Len(recent) \in 3..(max_consecutive_errors - 1)
  /\ recent[1] = "below"
  /\ recent[2] = "failure"
  /\ now - spanStart >= silence_timeout_seconds
  /\ silence_timeout_seconds = MaxTimeout

\* C3: as long as every probe outcome has been a reading at or above the
\* threshold, the verdict is Playing (no start time, flag false) and no
\* "down" is sent.
C3_AudioStaysPlaying ==
  onlyAudio =>
    /\ Verdict = "Playing"
    /\ silence_start_time = None
    /\ ~is_silent
    /\ sent.status # "down"
    /\ downsSinceAudio = 0

\* several audio-present readings, the last one exactly at the threshold
C3_Witness ==
  /\ onlyAudio
  /\ Len(recent) >= 3
  /\ outcome.kind = "reading"
  /\ outcome.mean_volume = silence_threshold_db

\* C4: the first audio-present reading after a "down" sends exactly one "up"
\* and clears the flag; an audio-present reading that follows another one
\* sends nothing; and after the recovery a new silence span that reaches the
\* timeout sends a new "down".
C4_Step ==
  Probed =>
    /\ Audio' =>
          /\ ~is_silent'
          /\ (downsSinceAudio > 0) => sent' = Up
          /\ Audio => sent' = NoSend
          /\ ups' = ups + (IF downsSinceAudio > 0 THEN 1 ELSE 0)
    /\ (Below' /\ ups > 0 /\ downsSinceAudio = 0
          /\ now' - spanStart' >= silence_timeout_seconds) => SilenceDown'

C4_Recovery == [][C4_Step]_vars

\* a new "down" of the silence path after a recovery was reported
C4_Witness == SilenceDown /\ ups >= 1 /\ downsSinceAudio = 1

\* C5: a span of below-threshold readings that ends with an audio-present
\* reading before any "down" was sent sends nothing at that reading, and an
\* "up" is sent only when the flag was true.
C5_Step ==
  Probed =>
    /\ (Audio' /\ spanOpen /\ downsSinceAudio = 0) => sent' = NoSend
    /\ (sent'.status = "up") => is_silent

C5_Debounce == [][C5_Step]_vars

\* a short silence span that ended without any notification
C5_Witness ==
  /\ Len(recent) >= 3
  /\ recent[Len(recent)] = "audio"
  /\ recent[Len(recent) - 1] = "below"
  /\ recent[Len(recent) - 2] = "below"
  /\ sent = NoSend
  /\ ups = 0
  /\ ~is_silent

\* the handlers that compare the counter with max_consecutive_errors
Escalated == outcome.kind \in {"unparseable", "timeout", "subprocess_error"}

C6_Step ==
  (Probed /\ Escalated' /\ consecutive_errors' >= max_consecutive_errors) =>
      /\ is_silent'
      /\ silence_start_time' = silence_start_time
      /\ ~is_silent => EscalationDown'
      /\ is_silent => sent' = NoSend

C7_AnyFailureEscalates ==
  (Failed /\ consecutive_errors >= max_consecutive_errors) => is_silent

\* C8: consecutive_errors is 0 after every iteration that parsed a reading,
\* and the escalation sends its "down" only when the last
\* max_consecutive_errors outcomes were all failures.
C8_ReadingResetsCount ==
  /\ (outcome.kind = "reading") => consecutive_errors = 0
  /\ EscalationDown =>
        /\ Len(recent) = max_consecutive_errors
        /\ \A i \in 1..Len(recent) : recent[i] = "failure"

\* a reading that interrupts a run of failures one short of the threshold
C8_Witness ==
  /\ outcome.kind = "reading"
  /\ Len(recent) = max_consecutive_errors
  /\ \A i \in 1..(max_consecutive_errors - 1) : recent[i] = "failure"
  /\ consecutive_errors = 0
  /\ downsSinceAudio = 0

\* C9: a failed probe that leaves consecutive_errors below the escalation
\* threshold adds one to the counter and changes nothing else: no start
\* time, flag or verdict change and no notifier call.
C9_Step ==
  (Probed /\ Failed' /\ consecutive_errors' < max_consecutive_errors) =>
      /\ consecutive_errors' = consecutive_errors + 1
      /\ silence_start_time' = silence_start_time
      /\ is_silent' = is_silent
      /\ Verdict' = Verdict
      /\ sent' = NoSend
      /\ delivery' = "none"
      /\ config' = config

C9_FailureFrame == [][C9_Step]_vars

\* the last failure below the threshold, inside an open silence span
C9_Witness ==
  /\ Failed
  /\ consecutive_errors = max_consecutive_errors - 1
  /\ silence_start_time.some
  /\ ~is_silent
  /\ sent = NoSend

WellFormed(url) == url \in {"http://radio.example.com/stream.mp3", "https://kuma/push"}
Started == pc # "main"
NothingProbedOrSent ==
  /\ outcome.kind = "none"
  /\ sent = NoSend
  /\ lastCall = "none"
  /\ now = 0

C14_Step ==
  (Probed /\ outcome'.kind = "reading" /\ outcome'.mean_volume = silence_threshold_db) =>
    /\ silence_start_time' = None
    /\ ~is_silent'
    /\ sent'.status # "down"
    /\ is_silent => sent' = Up
    /\ ~is_silent => sent' = NoSend

C14_StrictThreshold == [][C14_Step]_vars

\* the recovery at a reading equal to the threshold, inside a silence span
C14_Witness ==
  /\ outcome.kind = "reading"
  /\ outcome.mean_volume = silence_threshold_db
  /\ sent = Up
  /\ Len(recent) >= 2
  /\ recent[Len(recent) - 1] = "below"

\* C15: the locals of the loop and its notifier call are, after every
\* iteration, what they would be had every delivery succeeded; a "down"
\* whose delivery failed leaves the flag set and is the only "down" of its
\* episode.
C15_FireAndForget ==
  /\ Started =>
       ideal = [start |-> silence_start_time, silent |-> is_silent,
                errors |-> consecutive_errors, call |-> sent]
  /\ (sent.status = "down" /\ delivery = "failed") => (is_silent /\ downsSinceAudio = 1)
  /\ (delivery = "failed") => (pc = "monitor" \/ exit_status = 0)

\* a "down" of the silence path whose delivery failed
C15_Witness ==
  /\ SilenceDown
  /\ delivery = "failed"
  /\ is_silent
  /\ pc = "monitor"

\* C16 (as claimed): a probe whose ffmpeg exited with a non-zero code is a
\* failure that counts in consecutive_errors, and a reading comes only from
\* an exit code of zero.
C16_ExitCodeIsFailure ==
  /\ (outcome.returncode \in ReturnCodes /\ outcome.returncode # 0) =>
        (Failed /\ consecutive_errors >= 1)
  /\ (outcome.kind = "reading") => outcome.returncode = 0

\* C17: no iteration of the loop ends the process, whatever the probe and
\* the delivery did: the loop is left only by the interruption, with status
\* zero, and until then another iteration can follow.
C17_Step ==
  (pc = "monitor") =>
    \/ pc' = "monitor"
    \/ (~Probed /\ pc' = "exit" /\ exit_status' = 0)

C17_Running ==
  (pc = "monitor" /\ now + 1 <= MaxTime) =>
    /\ ENABLED ProbeReading
    /\ ENABLED ProbeUnexpectedError

C17_NeverFatal == []C17_Running /\ [][C17_Step]_vars

\* the loop still running after an escalated "down" to a configured push
\* URL and an unexpected error past the escalation threshold
C17_Witness ==
  /\ pc = "monitor"
  /\ outcome.kind = "unexpected"
  /\ is_silent
  /\ lastCall = "down"
  /\ consecutive_errors > max_consecutive_errors
  /\ uptime_kuma_url # ""

\* C18: the notifier calls of the loop alternate, starting with "down": a
\* "down" follows no call or an "up", an "up" follows a "down".
C18_Step ==
  Probed =>
    /\ (sent'.status = "down") => lastCall \in {"none", "up"}
    /\ (sent'.status = "up") => lastCall = "down"

C18_Alternation == [][C18_Step]_vars

\* the second recovery of a run
C18_Witness == sent = Up /\ ups = 2 /\ lastCall = "up"

\* C19: after an iteration whose reading was at or above the threshold the
\* locals equal their initial values: no start time, flag false, counter 0.
C19_AudioResets ==
  Audio =>
    /\ silence_start_time = None
    /\ is_silent = FALSE
    /\ consecutive_errors = 0

\* an audio-present reading that recovers a silence span with failed probes
C19_Witness ==
  /\ Audio
  /\ sent = Up
  /\ Len(recent) = max_consecutive_errors
  /\ recent[1] = "below"
  /\ \A i \in 2..(max_consecutive_errors - 1) : recent[i] = "failure"
====
